---- MODULE Spec2Model ----
(***************************************************************************)
(* Verification model of the TUF toolkit "tough": the signed-document      *)
(* envelope (tough/src/serde/mod.rs), the datastore (tough/src/datastore.rs)*)
(* the update workflow that uses both, and the authoring tool tuftool: the  *)
(* repository builder (tuftool/src/create.rs) and the root editor           *)
(* (tuftool/src/root.rs).                                                   *)
(***************************************************************************)
EXTENDS Integers, Sequences, FiniteSets, TLC

\* ------------------------------------------------------------------ bounds
MaxKeyids == 2        \* longest RoleKeys.keyids list
MaxSigs == 2          \* longest signatures list
MaxThreshold == 2     \* largest RoleKeys.threshold
MaxTime == 1          \* clock values are 0..MaxTime
MaxVersion == 2       \* document versions are 1..MaxVersion

KeyIds == {1, 2}
KeyMaterial == {"A", "B"}
\* the key object a key id is the digest of
KeyOf(keyid) == IF keyid = 1 THEN "A" ELSE "B"
Times == 0..MaxTime

\* serde/mod.rs: enum Role
Role == {"root", "snapshot", "targets", "timestamp"}


\* ---------------------------------------------------------------- helpers
SeqsUpTo(S, n) == UNION {[1..k -> S] : k \in 0..n}

Contains(seq, x) == \E i \in 1..Len(seq) : seq[i] = x

\* ------------------------------------------------- serde/mod.rs, root.rs
\* struct RoleKeys { keyids: Vec<Decoded<Hex>>, threshold: NonZeroU64 }
RoleKeys == [keyids : SeqsUpTo(KeyIds, MaxKeyids), threshold : 1..MaxThreshold]

\* names of files: plain, with a control character, with a quote
PlainName == "file.txt"
ControlName == "a\tb"
QuoteName == "a\"b"

\* serde_json's format_escaped_str: quote, backslash and control characters
\* are written as escapes
format_escaped_str(s) ==
    IF s = ControlName THEN "a\\tb"
    ELSE IF s = QuoteName THEN "a\\\"b"
    ELSE s

\* serde_json::to_vec(&self.signed): the fields in declaration order, the
\* serde tag first, a map as its entries in key order, each key a JSON string.
to_vec(signed) ==
    IF signed.type = "root"
    THEN << <<"_type", "root">>,
            <<"consistent_snapshot", signed.consistent_snapshot>>,
            <<"expires", signed.expires>>,
            <<"keys", signed.keys>>,
            <<"roles", signed.roles>>,
            <<"spec_version", "1.0">>,
            <<"version", signed.version>> >>
    ELSE IF signed.type = "targets"
    THEN << <<"_type", signed.type>>,
            <<"expires", signed.expires>>,
            <<"spec_version", "1.0">>,
            <<"targets", { <<format_escaped_str(k), signed.meta[k]>> : k \in DOMAIN signed.meta }>>,
            <<"version", signed.version>> >>
    ELSE << <<"_type", signed.type>>,
            <<"expires", signed.expires>>,
            <<"meta", { <<format_escaped_str(k), signed.meta[k]>> : k \in DOMAIN signed.meta }>>,
            <<"spec_version", "1.0">>,
            <<"version", signed.version>> >>

\* KeyPair::sign: the signature of msg under the key pair
sign(key, msg) == [key |-> key, data |-> msg]

\* Key::verify(data, sig): sig was made over data by the matching key pair
KeyVerify(key, data, sig) == sig.key = key /\ sig.data = data

\* variant: the role's keyids are not consulted
SignatureCounts_anyKey(signature, role_keys, keys, data) ==
    /\ signature.keyid \in DOMAIN keys
    /\ KeyVerify(keys[signature.keyid], data, signature.sig)

\* The body of the `for signature in &self.signatures` loop
SignatureCounts(signature, role_keys, keys, data) ==
    /\ Contains(role_keys.keyids, signature.keyid)
    /\ signature.keyid \in DOMAIN keys
    /\ KeyVerify(keys[signature.keyid], data, signature.sig)

RECURSIVE CountValid(_, _, _, _)
CountValid(signatures, role_keys, keys, data) ==
    IF signatures = <<>> THEN 0
    ELSE (IF SignatureCounts(Head(signatures), role_keys, keys, data) THEN 1 ELSE 0)
         + CountValid(Tail(signatures), role_keys, keys, data)

\* variant: any one valid signature is enough
verify_thresholdOne(self, root) ==
    IF self.signed.type \notin DOMAIN root.signed.roles
    THEN [out |-> "MissingRole", valid |-> 0]
    ELSE LET role_keys == root.signed.roles[self.signed.type]
             data == to_vec(self.signed)
             valid == CountValid(self.signatures, role_keys, root.signed.keys, data)
         IN  IF valid >= 1
             THEN [out |-> "Ok", valid |-> valid]
             ELSE [out |-> "SignatureThreshold", valid |-> valid]

\* variant: threshold comparison off by one
verify_offByOne(self, root) ==
    IF self.signed.type \notin DOMAIN root.signed.roles
    THEN [out |-> "MissingRole", valid |-> 0]
    ELSE LET role_keys == root.signed.roles[self.signed.type]
             data == to_vec(self.signed)
             valid == CountValid(self.signatures, role_keys, root.signed.keys, data)
         IN  IF valid + 1 >= role_keys.threshold
             THEN [out |-> "Ok", valid |-> valid]
             ELSE [out |-> "SignatureThreshold", valid |-> valid]

\* Signed<T>::verify(&self, root)
verify(self, root) ==
    IF self.signed.type \notin DOMAIN root.signed.roles
    THEN [out |-> "MissingRole", valid |-> 0]
    ELSE LET role_keys == root.signed.roles[self.signed.type]
             data == to_vec(self.signed)
             valid == CountValid(self.signatures, role_keys, root.signed.keys, data)
         IN  IF valid >= role_keys.threshold
             THEN [out |-> "Ok", valid |-> valid]
             ELSE [out |-> "SignatureThreshold", valid |-> valid]

\* variant: the comparison the wrong way round
check_expired_swapped(self, now) ==
    IF self.signed.expires < now THEN "Ok" ELSE "ExpiredMetadata"

\* Signed<T>::check_expired(&self)
check_expired(self, now) ==
    IF now < self.signed.expires THEN "Ok" ELSE "ExpiredMetadata"

\* ------------------------------------------------------------------ state
VARIABLES
    root,     \* the Signed<Root> that verify is given
    self,     \* the Signed<T> under verification
    res,      \* the Result of the last call
    dir,      \* the datastore directory on disk
    files,    \* the files of the datastore directory on disk
    ds,       \* TRUE once a Datastore value has been constructed
    w,        \* the writer: position inside Datastore::create and its arguments
    dres,     \* the Result of the writer's last Datastore call
    r,        \* the reader: position, open file and what it has read
    anchor,   \* the operator-supplied root file of the update workflow
    upc,      \* state of the current update run
    ures,     \* the step that ended last and its Result
    args,     \* tuftool create: the CreateArgs and the files they name
    process,  \* tuftool create: position of the run and the CreateProcess
    outdir,   \* tuftool create: the files of the output directory
    rootfile, \* tuftool root: the root.json file the commands edit
    last      \* tuftool root: the command that ran last and its Result

vvars == <<root, self, res>>
dvars == <<dir, files, ds, w, dres, r>>
uvars == <<anchor, upc, ures>>
bvars == <<args, process, outdir>>
tvars == <<rootfile, last>>
vars == <<root, self, res, dir, files, ds, w, dres, r, anchor, upc, ures,
          args, process, outdir, rootfile, last>>

NoRes == [op |-> "none", now |-> 0, valid |-> 0, out |-> "none"]

\* ------------------------------------------- inputs of the envelope checks
\* Signatures a peer can attach to a document whose signed bytes are `data`:
\* made by any key pair, over these bytes or over the bytes of another version.
TamperedBytes(data) == [data EXCEPT ![Len(data)] = <<"version", data[Len(data)][2] + 1>>]

SignaturesOver(data) ==
    { [keyid |-> k, sig |-> sign(m, d)] :
        k \in KeyIds, m \in KeyMaterial, d \in {data, TamperedBytes(data)} }

RootSigned(expires, keys, roles, version) ==
    [type |-> "root", consistent_snapshot |-> TRUE, expires |-> expires,
     keys |-> keys, roles |-> roles, version |-> version]

RoleSigned(type, expires, meta, version) ==
    [type |-> type, expires |-> expires, meta |-> meta, version |-> version]

EmptyMeta == [f \in {} |-> 0]

\* ------------------------------------------------------- datastore.rs
Oct(a, b, c) == a * 64 + b * 8 + c

RECURSIVE BitAnd(_, _)
BitAnd(a, b) ==
    IF a = 0 \/ b = 0 THEN 0
    ELSE (a % 2) * (b % 2) + 2 * BitAnd(a \div 2, b \div 2)

Files == {"root.json", "timestamp.json", "snapshot.json", "targets.json"}
\* the files the datastore operations are exercised on
ExercisedFiles == {"timestamp.json", "snapshot.json"}
Values == {"v1", "v2"}

\* what fs::metadata / File::open find at a path
NoEntry == [kind |-> "absent", mode |-> 0, bytes |-> <<>>]
Unreadable == [kind |-> "error", mode |-> 0, bytes |-> <<>>]
Entry(mode, bytes) == [kind |-> "file", mode |-> mode, bytes |-> bytes]

DirModes == {Oct(7, 5, 5), Oct(7, 0, 0), Oct(7, 7, 5), Oct(7, 5, 7)}
FileModes == {Oct(6, 4, 4), Oct(6, 0, 0), Oct(6, 6, 4), Oct(6, 4, 6)}
Umasks == {Oct(0, 2, 2), Oct(0, 7, 7), Oct(0, 0, 0)}

\* serde_json::to_writer_pretty: the document reaches the file in several
\* write calls
to_writer_pretty(value) == <<"{", value, "}">>

\* variant: only the world-write bit is tested
check_permissions_worldOnly(entry) ==
    IF entry.kind = "absent" THEN "Ok"
    ELSE IF entry.kind = "error" THEN "DatastoreMetadata"
    ELSE IF BitAnd(entry.mode, Oct(0, 0, 2)) = 0 THEN "Ok"
    ELSE "DatastorePermissions"

\* fn check_permissions(path)
check_permissions(entry) ==
    IF entry.kind = "absent" THEN "Ok"
    ELSE IF entry.kind = "error" THEN "DatastoreMetadata"
    ELSE IF BitAnd(entry.mode, Oct(0, 2, 2)) = 0 THEN "Ok"
    ELSE "DatastorePermissions"

\* File::create(&path) when it succeeds: truncates an existing file and keeps
\* its mode, creates a missing one with mode 0o666 & !umask
FileCreate(entry, umask) ==
    IF entry.kind = "file" THEN Entry(entry.mode, <<>>)
    ELSE Entry(BitAnd(Oct(6, 6, 6), Oct(7, 7, 7) - umask), <<>>)

\* f.metadata()?.permissions().set_mode(0o644): the mode is set on the
\* Permissions value the call returned, the file is not touched
SetModeOnTemporary(entry) == entry

IdleWriter == [pc |-> "idle", file |-> "", value |-> "", pos |-> 0]
NoDres == [op |-> "none", file |-> "", value |-> "", out |-> "none"]
IdleReader == [pc |-> "idle", file |-> "", held |-> <<>>, orphan |-> FALSE,
               seen |-> <<>>, out |-> "none"]

NoArgs == [root |-> <<>>, keys |-> {}, indir |-> {}]
IdleProcess == [pc |-> "none"]
NoFiles == [p \in {} |-> <<>>]
NoCommand == [op |-> "none", role |-> "", key |-> "", arg |-> 0, out |-> "none"]

IdleTools ==
    /\ args = NoArgs
    /\ process = IdleProcess
    /\ outdir = NoFiles
    /\ rootfile = NoEntry
    /\ last = NoCommand

IdleUpdate ==
    /\ anchor = [signed |-> RootSigned(0, <<>>, <<>>, 1), signatures |-> <<>>]
    /\ upc = "none"
    /\ ures = [step |-> "none", out |-> "none"]

IdleDatastore ==
    /\ IdleUpdate
    /\ IdleTools
    /\ dir = NoEntry
    /\ files = [f \in Files |-> NoEntry]
    /\ ds = FALSE
    /\ w = IdleWriter
    /\ dres = NoDres
    /\ r = IdleReader

IdleEnvelope ==
    /\ root = [signed |-> RootSigned(0, <<>>, <<>>, 1), signatures |-> <<>>]
    /\ self = root
    /\ res = NoRes

\* a directory that is missing, cannot be examined, or exists with some mode;
\* the files of an existing directory are missing, unreadable or hold a
\* complete document
InitDatastore ==
    /\ IdleEnvelope
    /\ IdleUpdate
    /\ IdleTools
    /\ \E d \in {NoEntry, Unreadable} \cup {Entry(m, <<>>) : m \in DirModes} :
         /\ dir = d
         /\ IF d.kind = "file"
            THEN \E fs \in [ExercisedFiles -> {NoEntry, Unreadable}
                               \cup {Entry(m, to_writer_pretty(v)) : m \in FileModes, v \in Values}] :
                   files = [f \in Files |-> IF f \in ExercisedFiles THEN fs[f] ELSE NoEntry]
            ELSE files = [f \in Files |-> d]
    /\ ds = FALSE
    /\ w = IdleWriter
    /\ dres = NoDres
    /\ r = IdleReader

\* Datastore::new(path)
New ==
    /\ ~ ds /\ dres = NoDres
    /\ LET out == check_permissions(dir) IN
         /\ ds' = (out = "Ok")
         /\ dres' = [op |-> "new", file |-> "", value |-> "", out |-> out]
    /\ UNCHANGED <<bvars, tvars, vvars, uvars, dir, files, w, r>>

\* Datastore::create, up to the ? after check_permissions
CreateCall ==
    /\ ds /\ w.pc = "idle" /\ dres = NoDres
    /\ \E file \in ExercisedFiles, value \in Values :
         LET out == check_permissions(files[file]) IN
         IF out = "Ok"
         THEN /\ w' = [pc |-> "open", file |-> file, value |-> value, pos |-> 0]
              /\ dres' = dres
         ELSE /\ dres' = [op |-> "create", file |-> file, value |-> value, out |-> out]
              /\ w' = w
    /\ UNCHANGED <<bvars, tvars, vvars, uvars, dir, files, ds, r>>

\* File::create(&path).context(DatastoreCreate)?
CreateOpen ==
    /\ w.pc = "open"
    /\ \/ /\ dir.kind = "file" /\ files[w.file].kind # "error"
          /\ \E umask \in Umasks :
               files' = [files EXCEPT ![w.file] = FileCreate(@, umask)]
          /\ w' = [w EXCEPT !.pc = "meta"]
          /\ dres' = dres
       \/ /\ dres' = [op |-> "create", file |-> w.file, value |-> w.value,
                      out |-> "DatastoreCreate"]
          /\ w' = IdleWriter
          /\ files' = files
    /\ UNCHANGED <<bvars, tvars, vvars, uvars, dir, ds, r>>

\* f.metadata().context(DatastoreMetadata)?.permissions().set_mode(0o644)
CreateSetMode ==
    /\ w.pc = "meta"
    /\ \/ /\ files' = [files EXCEPT ![w.file] = SetModeOnTemporary(@)]
          /\ w' = [w EXCEPT !.pc = "write"]
          /\ dres' = dres
       \/ /\ dres' = [op |-> "create", file |-> w.file, value |-> w.value,
                      out |-> "DatastoreMetadata"]
          /\ w' = IdleWriter
          /\ files' = files
    /\ UNCHANGED <<bvars, tvars, vvars, uvars, dir, ds, r>>

\* one write call of serde_json::to_writer_pretty(&mut f, value), and the
\* Ok(()) after the last one
CreateWrite ==
    /\ w.pc = "write"
    /\ \/ /\ files' = [files EXCEPT ![w.file].bytes =
                          Append(@, to_writer_pretty(w.value)[w.pos + 1])]
          /\ IF w.pos + 1 = Len(to_writer_pretty(w.value))
             THEN /\ w' = IdleWriter
                  /\ dres' = [op |-> "create", file |-> w.file, value |-> w.value,
                              out |-> "Ok"]
             ELSE /\ w' = [w EXCEPT !.pos = @ + 1]
                  /\ dres' = dres
       \/ /\ dres' = [op |-> "create", file |-> w.file, value |-> w.value,
                      out |-> "JsonSerialization"]
          /\ w' = IdleWriter
          /\ files' = files
    /\ UNCHANGED <<bvars, tvars, vvars, uvars, dir, ds, r>>

\* Datastore::remove(file); a reader that has the file open keeps its bytes
Remove ==
    /\ ds /\ w.pc = "idle" /\ dres = NoDres
    /\ \E file \in ExercisedFiles :
         \/ /\ files[file].kind # "error"
            /\ files' = [files EXCEPT ![file] = NoEntry]
            /\ dres' = [op |-> "remove", file |-> file, value |-> "", out |-> "Ok"]
            /\ IF r.pc = "opened" /\ r.file = file /\ ~ r.orphan
               THEN r' = [r EXCEPT !.held = files[file].bytes, !.orphan = TRUE]
               ELSE r' = r
         \/ /\ files[file].kind # "absent"
            /\ files' = files
            /\ dres' = [op |-> "remove", file |-> file, value |-> "",
                        out |-> "DatastoreRemove"]
            /\ r' = r
    /\ UNCHANGED <<bvars, tvars, vvars, uvars, dir, ds, w>>

\* the caller takes the writer's Result
ReturnWriter ==
    /\ dres # NoDres
    /\ dres' = NoDres
    /\ UNCHANGED <<bvars, tvars, vvars, uvars, dir, files, ds, w, r>>

\* Datastore::reader(file)
Reader ==
    /\ ds /\ r.pc = "idle"
    /\ \E file \in ExercisedFiles :
         LET out == check_permissions(files[file]) IN
         IF out # "Ok"
         THEN r' = [IdleReader EXCEPT !.pc = "done", !.file = file, !.out = out]
         ELSE IF files[file].kind = "absent"
         THEN r' = [IdleReader EXCEPT !.pc = "done", !.file = file, !.out = "OkNone"]
         ELSE \/ r' = [IdleReader EXCEPT !.pc = "opened", !.file = file, !.out = "OkSome"]
              \/ r' = [IdleReader EXCEPT !.pc = "done", !.file = file,
                                         !.out = "DatastoreOpen"]
    /\ UNCHANGED <<bvars, tvars, vvars, uvars, dir, files, ds, w, dres>>

\* the caller reads the opened file to its end
ReaderRead ==
    /\ r.pc = "opened"
    /\ r' = [r EXCEPT !.pc = "done",
                      !.seen = IF r.orphan THEN r.held ELSE files[r.file].bytes]
    /\ UNCHANGED <<bvars, tvars, vvars, uvars, dir, files, ds, w, dres>>

\* the caller is done with what it read
ReaderReturn ==
    /\ r.pc = "done"
    /\ r' = IdleReader
    /\ UNCHANGED <<bvars, tvars, vvars, uvars, dir, files, ds, w, dres>>

NextDatastore ==
    \/ New \/ CreateCall \/ CreateOpen \/ CreateSetMode \/ CreateWrite
    \/ Remove \/ ReturnWriter \/ Reader \/ ReaderRead \/ ReaderReturn

SpecDatastore == InitDatastore /\ [][NextDatastore]_vars

\* ------------------------------------------------------- envelope checks
InitVerify ==
    \E K \in SUBSET KeyIds, rk \in RoleKeys, D \in {{}, Role},
       kind \in {"root", "snapshot"},
       expires \in Times :
      LET signed == RootSigned(IF kind = "root" THEN expires ELSE MaxTime,
                               [k \in K |-> KeyOf(k)], [role \in D |-> rk], 1) IN
        IF kind = "root"
        THEN \E sigs \in SeqsUpTo(SignaturesOver(to_vec(signed)), MaxSigs) :
               /\ root = [signed |-> signed, signatures |-> sigs]
               /\ self = root
               /\ res = NoRes
               /\ IdleDatastore
        ELSE LET s2 == RoleSigned("snapshot", expires, EmptyMeta, 1) IN
             \E sigs \in SeqsUpTo(SignaturesOver(to_vec(s2)), MaxSigs) :
               /\ root = [signed |-> signed, signatures |-> <<>>]
               /\ self = [signed |-> s2, signatures |-> sigs]
               /\ res = NoRes
               /\ IdleDatastore

\* self.verify(&root)
Verify ==
    /\ res = NoRes
    /\ res' = [op |-> "verify", now |-> 0] @@ verify(self, root)
    /\ UNCHANGED <<bvars, tvars, root, self, dvars, uvars>>

\* self.check_expired(), Utc::now() read from the clock
CheckExpired ==
    /\ res = NoRes
    /\ \E now \in Times :
         res' = [op |-> "check_expired", now |-> now, valid |-> 0,
                 out |-> check_expired(self, now)]
    /\ UNCHANGED <<bvars, tvars, root, self, dvars, uvars>>

\* the caller drops the Result
Return ==
    /\ res # NoRes
    /\ res' = NoRes
    /\ UNCHANGED <<bvars, tvars, root, self, dvars, uvars>>

NextVerify == Verify \/ CheckExpired \/ Return

SpecVerify == InitVerify /\ [][NextVerify]_vars

\* ------------------------------------------------------- update workflow
\* (spec 4.4: load root, root rotation, timestamp, snapshot, targets)
Versions == 1..MaxVersion
ExpiryChoices == {0, MaxTime}
MetaNames == {"targets.json"}

ValidSignatures(signed) ==
    { [keyid |-> k, sig |-> sign(KeyOf(k), to_vec(signed))] : k \in KeyIds }

KeyidLists ==
    { ks \in SeqsUpTo(KeyIds, MaxKeyids) :
        Len(ks) >= 1 /\ \A i \in 1..(Len(ks) - 1) : ks[i] < ks[i + 1] }

AllKeys == [k \in KeyIds |-> KeyOf(k)]

\* every root lets key 1 alone sign timestamp, snapshot and targets
RolesWith(rk) ==
    [role \in Role |-> IF role = "root" THEN rk ELSE [keyids |-> <<1>>, threshold |-> 1]]

\* what the mirror can serve as N.root.json
RootCandidates ==
    UNION { { [signed |-> sg, signatures |-> sigs] :
                sigs \in SeqsUpTo(ValidSignatures(sg), MaxSigs) } :
            sg \in { RootSigned(e, AllKeys, RolesWith([keyids |-> ks, threshold |-> t]), v) :
                       e \in ExpiryChoices, ks \in KeyidLists,
                       t \in 1..MaxThreshold, v \in Versions } }

\* a mirror that only re-issues the trusted root: same content, any version,
\* signed by one key or not at all
ReissuedRoots(trusted) ==
    UNION { { [signed |-> sg, signatures |-> sigs] :
                sigs \in {<<>>} \cup { <<sig>> : sig \in ValidSignatures(sg) } } :
            sg \in { [trusted.signed EXCEPT !.version = v] : v \in 1..(MaxVersion + 1) } }

\* the roots an operator bootstraps from: version 1, signed once by each of
\* its root keys
Anchors ==
    { LET sg == RootSigned(MaxTime, AllKeys,
                           RolesWith([keyids |-> ks, threshold |-> Len(ks)]), 1)
      IN  [signed |-> sg,
           signatures |-> [i \in 1..Len(ks) |->
                             [keyid |-> ks[i], sig |-> sign(KeyOf(ks[i]), to_vec(sg))]]] :
      ks \in KeyidLists }

\* sha256 of a file's bytes, abstracted to the version of the document the
\* bytes hold (0 for bytes that hold none)
sha256(bytes) == IF Len(bytes) = 3 THEN bytes[2].signed.version ELSE 0

\* entries that refer to the bytes of a document of version v
MetaEntries == { [version |-> v, sha256 |-> v, length |-> 3] : v \in Versions }

MetaMaps(names) == UNION { [S -> MetaEntries] : S \in SUBSET names }

\* what the mirror can serve as timestamp.json, snapshot.json, targets.json
RoleCandidates(type, metas) ==
    UNION { { [signed |-> sg, signatures |-> sigs] :
                sigs \in {<<>>} \cup { <<sig>> : sig \in ValidSignatures(sg) } } :
            sg \in { RoleSigned(type, e, m, v) :
                       e \in ExpiryChoices, m \in metas, v \in Versions } }

\* serde_json::from_reader on the bytes of a stored file
Complete(entry) == entry.kind = "file" /\ Len(entry.bytes) = 3
Stored(entry) == entry.bytes[2]

\* reading the stored copy of a role: Datastore::reader, then the parse
StoredOut(entry) ==
    LET chk == check_permissions(entry) IN
    IF chk # "Ok" THEN chk
    ELSE IF entry.kind = "absent" THEN "OkNone"
    ELSE IF entry.kind = "error" THEN "DatastoreOpen"
    ELSE IF Complete(entry) THEN "OkSome"
    ELSE "JsonParse"

\* every way Datastore::create(file, value) can end: the Result and what it
\* leaves at the path
CreateOutcomes(entry, value, umasks, failurePoints) ==
    LET chk == check_permissions(entry) IN
    IF chk # "Ok" THEN { [entry |-> entry, out |-> chk] }
    ELSE IF entry.kind = "error" THEN { [entry |-> entry, out |-> "DatastoreCreate"] }
    ELSE { [entry |-> entry, out |-> "DatastoreCreate"] }
         \cup UNION {
            LET opened == SetModeOnTemporary(FileCreate(entry, umask))
                doc == to_writer_pretty(value)
            IN  { [entry |-> opened, out |-> "DatastoreMetadata"] }
                \cup { [entry |-> [opened EXCEPT !.bytes = SubSeq(doc, 1, n)],
                        out |-> "JsonSerialization"] :
                       n \in failurePoints \cap 0..(Len(doc) - 1) }
                \cup { [entry |-> [opened EXCEPT !.bytes = doc], out |-> "Ok"] } :
            umask \in umasks }

\* the umask the update workflow runs under
WorkflowUmask == Oct(0, 2, 2)
\* how many write calls succeed before one fails, in the update workflow
WriteFailurePoints == {0, 1}

\* variant: only the new root's own keys are consulted
RotationCheck_newOnly(new, trusted) ==
    IF verify(new, new).out # "Ok" THEN verify(new, new).out
    ELSE IF new.signed.version # trusted.signed.version + 1 THEN "VersionMismatch"
    ELSE "Ok"

\* 4.4 (b): the new root must verify under the old root and under itself and
\* carry the next version
RotationCheck(new, trusted) ==
    IF verify(new, trusted).out # "Ok" THEN verify(new, trusted).out
    ELSE IF verify(new, new).out # "Ok" THEN verify(new, new).out
    ELSE IF new.signed.version # trusted.signed.version + 1 THEN "VersionMismatch"
    ELSE "Ok"

\* the length and sha256 of fetched bytes against the entry that refers to them
ReferenceCheck(referrer, name, new) ==
    IF name \notin DOMAIN referrer.signed.meta THEN "MetaMissing"
    ELSE LET m == referrer.signed.meta[name]
             bytes == to_writer_pretty(new)
         IN  IF m.length # Len(bytes) THEN "LengthMismatch"
             ELSE IF m.sha256 # sha256(bytes) THEN "HashMismatch"
             ELSE "Ok"

\* variant: the stored copy is not consulted
RollbackCheck_none(entry, new) ==
    LET so == StoredOut(entry) IN
    IF so \notin {"OkNone", "OkSome"} THEN so ELSE "Ok"

\* new.version >= stored.version when a stored copy exists
RollbackCheck(entry, new) ==
    LET so == StoredOut(entry) IN
    IF so \notin {"OkNone", "OkSome"} THEN so
    ELSE IF so = "OkSome" /\ new.signed.version < Stored(entry).signed.version
         THEN "VersionRollback"
    ELSE "Ok"

\* 4.4 (d): for every filename in both the old and the new meta the version
\* must not go down
MetaRollbackCheck(entry, new) ==
    IF StoredOut(entry) = "OkSome"
       /\ \E f \in DOMAIN Stored(entry).signed.meta \cap DOMAIN new.signed.meta :
             new.signed.meta[f].version < Stored(entry).signed.meta[f].version
    THEN "VersionRollback"
    ELSE "Ok"

First(outs) ==
    IF \E i \in 1..Len(outs) : outs[i] # "Ok"
    THEN outs[CHOOSE i \in 1..Len(outs) :
                 outs[i] # "Ok" /\ \A j \in 1..(i - 1) : outs[j] = "Ok"]
    ELSE "Ok"

TimestampCheck(new, now) ==
    First(<< verify(new, root).out,
             RollbackCheck(files["timestamp.json"], new),
             check_expired(new, now) >>)

SnapshotCheck(new, now) ==
    First(<< ReferenceCheck(Stored(files["timestamp.json"]), "snapshot.json", new),
             verify(new, root).out,
             RollbackCheck(files["snapshot.json"], new),
             MetaRollbackCheck(files["snapshot.json"], new),
             check_expired(new, now) >>)

TargetsCheck(new, now) ==
    First(<< ReferenceCheck(Stored(files["snapshot.json"]), "targets.json", new),
             verify(new, root).out,
             check_expired(new, now),
             RollbackCheck(files["targets.json"], new) >>)

InitRotation ==
    /\ IdleTools
    /\ anchor \in Anchors
    /\ root = anchor
    /\ self = anchor
    /\ res = NoRes
    /\ dir = Entry(Oct(7, 0, 0), <<>>)
    /\ files = [f \in Files |-> NoEntry]
    /\ ds = TRUE
    /\ w = IdleWriter
    /\ dres = NoDres
    /\ r = IdleReader
    /\ upc = "start"
    /\ ures = [step |-> "none", out |-> "none"]

Fail(step, out) ==
    /\ upc' = "failed"
    /\ ures' = [step |-> step, out |-> out]

\* verified document `new` is written with Datastore::create; the step
\* succeeds when the write does
Persist(step, file, new, next) ==
    \E o \in CreateOutcomes(files[file], new, {WorkflowUmask}, WriteFailurePoints) :
       /\ files' = [files EXCEPT ![file] = o.entry]
       /\ upc' = IF o.out = "Ok" THEN next ELSE "failed"
       /\ ures' = [step |-> step, out |-> o.out]

\* 4.4 (a): the operator-supplied root must verify under itself and be fresh
LoadRoot ==
    /\ upc = "start"
    /\ root' = anchor
    /\ \E now \in Times :
         LET out == First(<< verify(anchor, anchor).out, check_expired(anchor, now) >>) IN
         /\ upc' = IF out = "Ok" THEN "rotating" ELSE "failed"
         /\ ures' = [step |-> "load_root", out |-> out]
    /\ UNCHANGED <<bvars, tvars, self, res, dvars, anchor>>

\* 4.4 (b), one fetched N.root.json
RotateRootAmong(candidates) ==
    /\ upc = "rotating"
    /\ \E new \in candidates :
         LET out == RotationCheck(new, root) IN
         IF out = "Ok"
         THEN /\ root' = new
              /\ Persist("root", "root.json", new, "rotating")
         ELSE /\ Fail("root", out)
              /\ UNCHANGED <<root, files>>
    /\ UNCHANGED <<bvars, tvars, self, res, dir, ds, w, dres, r, anchor>>

RotateRoot == RotateRootAmong(RootCandidates)

RotateReissuedRoot == RotateRootAmong(ReissuedRoots(root))

\* 4.4 (b), the mirror has no next root (or the fetch fails): rotation ends
\* and the trusted root must be fresh
EndRotation ==
    /\ upc = "rotating"
    /\ \/ \E now \in Times :
            LET out == check_expired(root, now) IN
            /\ upc' = IF out = "Ok" THEN "root_ok" ELSE "failed"
            /\ ures' = [step |-> "root", out |-> out]
       \/ Fail("root", "TransportError")
    /\ UNCHANGED <<bvars, tvars, vvars, dvars, anchor>>

\* 4.4 (c)
UpdateTimestamp ==
    /\ upc = "root_ok"
    /\ \/ \E new \in RoleCandidates("timestamp", MetaMaps({"snapshot.json"})), now \in Times :
            LET out == TimestampCheck(new, now) IN
            IF out = "Ok"
            THEN Persist("timestamp", "timestamp.json", new, "timestamp_ok")
            ELSE Fail("timestamp", out) /\ UNCHANGED files
       \/ Fail("timestamp", "TransportError") /\ UNCHANGED files
    /\ UNCHANGED <<bvars, tvars, vvars, dir, ds, w, dres, r, anchor>>

\* 4.4 (d)
UpdateSnapshot ==
    /\ upc = "timestamp_ok"
    /\ \/ \E new \in RoleCandidates("snapshot", MetaMaps(MetaNames)), now \in Times :
            LET out == SnapshotCheck(new, now) IN
            IF out = "Ok"
            THEN Persist("snapshot", "snapshot.json", new, "snapshot_ok")
            ELSE Fail("snapshot", out) /\ UNCHANGED files
       \/ Fail("snapshot", "TransportError") /\ UNCHANGED files
    /\ UNCHANGED <<bvars, tvars, vvars, dir, ds, w, dres, r, anchor>>

\* 4.4 (e)
UpdateTargets ==
    /\ upc = "snapshot_ok"
    /\ \/ \E new \in RoleCandidates("targets", {EmptyMeta}), now \in Times :
            LET out == TargetsCheck(new, now) IN
            IF out = "Ok"
            THEN Persist("targets", "targets.json", new, "targets_ok")
            ELSE Fail("targets", out) /\ UNCHANGED files
       \/ Fail("targets", "TransportError") /\ UNCHANGED files
    /\ UNCHANGED <<bvars, tvars, vvars, dir, ds, w, dres, r, anchor>>

\* the next update run
StartRun ==
    /\ upc \in {"targets_ok", "failed"}
    /\ upc' = "start"
    /\ ures' = [step |-> "none", out |-> "none"]
    /\ UNCHANGED <<bvars, tvars, vvars, dvars, anchor>>

\* the rest of a run, which leaves the trusted root and root.json alone
RestOfRun ==
    /\ upc = "root_ok"
    /\ \/ upc' = "targets_ok" /\ ures' = [step |-> "targets", out |-> "Ok"]
       \/ Fail("timestamp", "TransportError")
    /\ UNCHANGED <<bvars, tvars, vvars, dvars, anchor>>

\* the root part of the workflow, against a mirror that serves any root
NextRotation == LoadRoot \/ RotateRoot \/ EndRotation \/ RestOfRun \/ StartRun

SpecRotation == InitRotation /\ [][NextRotation]_vars

\* the whole workflow, bootstrapped from the root with the single root key 1
InitUpdate ==
    /\ InitRotation
    /\ anchor.signed.roles["root"].keyids = <<1>>

NextUpdate ==
    \/ LoadRoot \/ RotateReissuedRoot \/ EndRotation
    \/ UpdateTimestamp \/ UpdateSnapshot \/ UpdateTargets \/ StartRun

SpecUpdate == InitUpdate /\ [][NextUpdate]_vars

\* ------------------------------------------------- tuftool/src/create.rs
\* olpc_cjson's CanonicalFormatter: only the quote and the backslash are
\* written as escapes
canonical_str(s) == IF s = QuoteName THEN "a\\\"b" ELSE s

\* role.signed.serialize(&mut ser) with the CanonicalFormatter: no white
\* space, object keys in sorted order
CanonicalForm(signed) ==
    IF signed.type = "targets"
    THEN << <<"_type", signed.type>>,
            <<"expires", signed.expires>>,
            <<"spec_version", "1.0">>,
            <<"targets", { <<canonical_str(k), signed.meta[k]>> : k \in DOMAIN signed.meta }>>,
            <<"version", signed.version>> >>
    ELSE << <<"_type", signed.type>>,
            <<"expires", signed.expires>>,
            <<"meta", { <<canonical_str(k), signed.meta[k]>> : k \in DOMAIN signed.meta }>>,
            <<"spec_version", "1.0">>,
            <<"version", signed.version>> >>

\* Sha256::digest(&buf)
Sha256Digest(buf) == <<"sha256", buf>>

\* serde_json::to_vec_pretty(&role): the rendering written to disk
to_vec_pretty(role) == <<"{", role.signed>> \o role.signatures \o <<"}">>

\* serde_json::from_slice::<Signed<T>>(&buf), a trailing newline is white space
from_slice(buf) ==
    LET body == IF buf[Len(buf)] = "\n" THEN SubSeq(buf, 1, Len(buf) - 1) ELSE buf
    IN  [signed |-> body[2], signatures |-> SubSeq(body, 3, Len(body) - 1)]

RootDoc(consistent_snapshot, keys, roles, version) ==
    [RootSigned(MaxTime, keys, roles, version)
        EXCEPT !.consistent_snapshot = consistent_snapshot]

\* a path below outdir: directory, version or hash prefix (0 and <<>> when
\* there is none) and file name
Path(pdir, version, hash, name) ==
    [dir |-> pdir, version |-> version, hash |-> hash, name |-> name]

\* outdir/metadata/<root.version>.root.json
root_path(rt) == Path("metadata", rt.version, <<>>, "root.json")

\* the path write_metadata computes
metadata_path_alwaysPrefixed(type, rt, version, filename) ==
    IF rt.consistent_snapshot
    THEN Path("metadata", version, <<>>, filename)
    ELSE Path("metadata", 0, <<>>, filename)

metadata_path(type, rt, version, filename) ==
    IF type # "timestamp" /\ rt.consistent_snapshot
    THEN Path("metadata", version, <<>>, filename)
    ELSE Path("metadata", 0, <<>>, filename)

\* the destination process_target computes
target_path(rt, sha, target_name) ==
    IF rt.consistent_snapshot
    THEN Path("targets", 0, sha, target_name)
    ELSE Path("targets", 0, <<>>, target_name)

\* CreateArgs::run, lines 96-102: the key pairs that equal a key of the root,
\* under the key id the root lists the key with; a key the root lists twice
\* is found under either key id
KeyMaps(rootkeys, sources) ==
    LET Matching(m) == { k \in DOMAIN rootkeys : rootkeys[k] = m }
        Found == { m \in sources : Matching(m) # {} }
        Choices == { c \in [Found -> DOMAIN rootkeys] : \A m \in Found : c[m] \in Matching(m) }
    IN  { [k \in { c[m] : m \in Found } |-> rootkeys[k]] : c \in Choices }

\* the orders in which a HashMap can yield the elements of S
Orders(S) ==
    { o \in [1..Cardinality(S) -> S] : \A i, j \in 1..Cardinality(S) : o[i] = o[j] => i = j }

\* variant: every key pair of the caller signs, whatever the role authorizes
SigningKeyids_anyRole(type, rt, keys) == DOMAIN keys

\* the key ids sign_metadata signs with
SigningKeyids(type, rt, keys) ==
    IF type \in DOMAIN rt.roles
    THEN { keyid \in DOMAIN keys : Contains(rt.roles[type].keyids, keyid) }
    ELSE {}

\* sign_metadata: the signatures lists it can leave in role.signatures
sign_metadata(signed, rt, keys) ==
    { [i \in DOMAIN o |-> [keyid |-> o[i], sig |-> sign(keys[o[i]], CanonicalForm(signed))]] :
        o \in Orders(SigningKeyids(signed.type, rt, keys)) }

\* variant: the digest is taken before the newline is pushed
written_hashBeforeNewline(role) ==
    LET buf == to_vec_pretty(role)
    IN  [buf |-> buf \o <<"\n">>, sha256 |-> Sha256Digest(buf), length |-> Len(buf)]

\* write_metadata, lines 305-312: the bytes written and the digest and
\* length returned
written(role) ==
    LET buf == to_vec_pretty(role) \o <<"\n">>
    IN  [buf |-> buf, sha256 |-> Sha256Digest(buf), length |-> Len(buf)]

NoRef == [sha256 |-> <<>>, length |-> 0]

\* the version and expiry arguments of `tuftool create`
CreateParams ==
    [snapshot_version : Versions, snapshot_expires : Times,
     targets_version : Versions, targets_expires : Times,
     timestamp_version : Versions, timestamp_expires : Times]

\* all three roles are given the same version and expiry
EqualParams ==
    { [snapshot_version |-> v, snapshot_expires |-> MaxTime,
       targets_version |-> v, targets_expires |-> MaxTime,
       timestamp_version |-> v, timestamp_expires |-> MaxTime] : v \in Versions }

\* the bytes of a root.json file that holds the unsigned root rt
RootFileOf(rt) == to_vec_pretty([signed |-> rt, signatures |-> <<>>]) \o <<"\n">>

\* roots whose every role is signed by key 1 alone
PlainRoots ==
    { RootDoc(c, (1 :> "A"),
              [role \in Role |-> [keyids |-> <<1>>, threshold |-> 1]], v) :
        c \in BOOLEAN, v \in Versions }

\* key maps of a root file: well formed, a key under the key id of another,
\* one key under two key ids
RootKeyMaps ==
    { <<>>, (1 :> "A"), (1 :> "A") @@ (2 :> "B"), (1 :> "B"), (1 :> "A") @@ (2 :> "A") }

\* roots that differ in their keys and in what they authorize; the timestamp
\* role may be missing
SigningRoots ==
    { RootDoc(TRUE, keys,
              [role \in D |-> [keyids |-> IF role = "targets" THEN kt ELSE ko,
                               threshold |-> t]], 1) :
        keys \in RootKeyMaps, D \in {Role, Role \ {"timestamp"}},
        kt \in {<<>>, <<1>>, <<1, 2>>}, ko \in {<<1>>, <<2>>},
        t \in {1, MaxThreshold} }

FileContents == { <<"x">>, <<"x", "y">> }

\* input directories with at most one file
Indirs(names, contents) ==
    { NoFiles } \cup { (n :> c) : n \in names, c \in contents }

StartProcess ==
    [pc |-> "start", root |-> <<>>, root_sha256 |-> <<>>, root_length |-> 0,
     keys |-> <<>>, targets |-> NoRef, snapshot |-> NoRef]

IdleStore ==
    /\ dir = NoEntry
    /\ files = [f \in Files |-> NoEntry]
    /\ ds = FALSE
    /\ w = IdleWriter
    /\ dres = NoDres
    /\ r = IdleReader

InitCreateWith(roots, sources, indirs, params) ==
    /\ IdleEnvelope
    /\ IdleUpdate
    /\ IdleStore
    /\ rootfile = NoEntry
    /\ last = NoCommand
    /\ \E rt \in roots, ks \in sources, ind \in indirs, par \in params :
         args = [root |-> RootFileOf(rt), keys |-> ks, indir |-> ind] @@ par
    /\ process = StartProcess
    /\ outdir = NoFiles

\* CreateArgs::run, lines 88-111
CreateArgsRun ==
    /\ process.pc = "start"
    /\ \E keys \in KeyMaps(from_slice(args.root).signed.keys, args.keys) :
         process' = [StartProcess EXCEPT
                        !.pc = "copy_root",
                        !.root = from_slice(args.root).signed,
                        !.root_sha256 = Sha256Digest(args.root),
                        !.root_length = Len(args.root),
                        !.keys = keys]
    /\ UNCHANGED <<vvars, dvars, uvars, tvars, args, outdir>>

\* CreateProcess::run, lines 127-138
CopyRoot ==
    /\ process.pc = "copy_root"
    /\ outdir' = (root_path(process.root) :> args.root) @@ outdir
    /\ process' = [process EXCEPT !.pc = "targets"]
    /\ UNCHANGED <<vvars, dvars, uvars, tvars, args>>

\* write_metadata(role, version, filename); its return value is kept in
\* process[ref], or dropped when ref is "none"
WriteMetadata(signed, version, filename, ref, next, copied) ==
    \E sigs \in sign_metadata(signed, process.root, process.keys) :
       LET out == written([signed |-> signed, signatures |-> sigs]) IN
         /\ outdir' = (metadata_path(signed.type, process.root, version, filename) :> out.buf)
                         @@ copied @@ outdir
         /\ process' = IF ref = "none"
                        THEN [process EXCEPT !.pc = next]
                        ELSE [process EXCEPT
                                 !.pc = next,
                                 ![ref] = [sha256 |-> out.sha256, length |-> out.length]]

\* process_target for every file of indir: its Target entry
Targets ==
    [n \in DOMAIN args.indir |->
        [sha256 |-> Sha256Digest(args.indir[n]), length |-> Len(args.indir[n])]]

\* process_target for every file of indir: the copies below outdir/targets
CopiedTargets ==
    LET dst(n) == target_path(process.root, Sha256Digest(args.indir[n]), n)
    IN  [p \in { dst(n) : n \in DOMAIN args.indir } |->
            args.indir[CHOOSE n \in DOMAIN args.indir : dst(n) = p]]

\* CreateProcess::run, lines 140-150
WriteTargets ==
    /\ process.pc = "targets"
    /\ WriteMetadata(RoleSigned("targets", args.targets_expires, Targets, args.targets_version),
                     args.targets_version, "targets.json", "targets", "snapshot",
                     CopiedTargets)
    /\ UNCHANGED <<vvars, dvars, uvars, tvars, args>>

\* CreateProcess::run, lines 152-181
WriteSnapshot ==
    /\ process.pc = "snapshot"
    /\ WriteMetadata(
         RoleSigned("snapshot", args.snapshot_expires,
                    ("root.json" :> [sha256 |-> process.root_sha256,
                                     length |-> process.root_length,
                                     version |-> process.root.version])
                    @@ ("targets.json" :> [sha256 |-> process.targets.sha256,
                                           length |-> process.targets.length,
                                           version |-> args.targets_version]),
                    args.snapshot_version),
         args.snapshot_version, "snapshot.json", "snapshot", "timestamp", NoFiles)
    /\ UNCHANGED <<vvars, dvars, uvars, tvars, args>>

\* CreateProcess::run, lines 183-205
WriteTimestamp ==
    /\ process.pc = "timestamp"
    /\ WriteMetadata(
         RoleSigned("timestamp", args.snapshot_expires,
                    ("snapshot.json" :> [sha256 |-> process.snapshot.sha256,
                                         length |-> process.snapshot.length,
                                         version |-> args.snapshot_version]),
                    args.snapshot_version),
         args.timestamp_version, "timestamp.json", "none", "done", NoFiles)
    /\ UNCHANGED <<vvars, dvars, uvars, tvars, args>>

\* the metadata files of outdir other than the root
WrittenMetadata ==
    { p \in DOMAIN outdir : p.dir = "metadata" /\ p.name # "root.json" }

\* a client that trusts args.root parses a written document and calls
\* Signed::verify on it
VerifyWritten ==
    /\ process.pc = "done"
    /\ \E p \in WrittenMetadata :
         /\ root' = from_slice(args.root)
         /\ self' = from_slice(outdir[p])
         /\ res' = [op |-> "verify", now |-> 0] @@ verify(self', root')
    /\ UNCHANGED <<dvars, uvars, tvars, bvars>>

NextCreate ==
    CreateArgsRun \/ CopyRoot \/ WriteTargets \/ WriteSnapshot \/ WriteTimestamp
        \/ VerifyWritten

\* the builder run with every choice of the six version and expiry arguments
InitCreate ==
    InitCreateWith(PlainRoots, {{}, {"A"}}, Indirs({PlainName}, FileContents), CreateParams)

SpecCreate == InitCreate /\ [][NextCreate]_vars

\* the builder run with every choice of root, keys and file names
InitSigning ==
    InitCreateWith(SigningRoots, SUBSET KeyMaterial,
                   Indirs({PlainName, ControlName, QuoteName}, {<<"x">>}), EqualParams)

SpecSigning == InitSigning /\ [][NextCreate]_vars

\* --------------------------------------------------- tuftool/src/root.rs
\* Key::key_id: the digest of the key object
key_id(key) == CHOOSE k \in KeyIds : KeyOf(k) = key

\* the threshold `root init` gives every role
InitialThreshold == 1507

\* macro role_keys!
role_keys(threshold) == [keyids |-> <<>>, threshold |-> threshold]

\* round_time: with_nanosecond(0); a second is two ticks of the clock
round_time(time) == (time \div 2) * 2

\* load_file and write_file of the root.json the commands are given
write_file(doc) == Entry(Oct(6, 4, 4), to_vec_pretty(doc) \o <<"\n">>)
load_file(entry) == from_slice(entry.bytes)

\* variant: the key id is pushed without looking
ListInRole_alwaysPush(rt, role, kid) ==
    LET roles == IF role \in DOMAIN rt.roles THEN rt.roles
                 ELSE (role :> role_keys(InitialThreshold)) @@ rt.roles
    IN  [rt EXCEPT !.roles = [roles EXCEPT ![role].keyids = Append(@, kid)]]

\* lines 199-202: the role's entry, made if missing, lists key_id once
ListInRole(rt, role, kid) ==
    LET roles == IF role \in DOMAIN rt.roles THEN rt.roles
                 ELSE (role :> role_keys(InitialThreshold)) @@ rt.roles
    IN  [rt EXCEPT !.roles =
            [roles EXCEPT ![role].keyids = IF Contains(@, kid) THEN @ ELSE Append(@, kid)]]

\* variant: a key id that is taken is overwritten
add_key_noDuplicateCheck(rt, role, key) ==
    LET Found == { k \in DOMAIN rt.keys : rt.keys[k] = key } IN
    IF Found # {}
    THEN { [out |-> "Ok", root |-> ListInRole(rt, role, k)] : k \in Found }
    ELSE { [out |-> "Ok",
            root |-> ListInRole([rt EXCEPT !.keys = (key_id(key) :> key) @@ @],
                                role, key_id(key))] }

\* fn add_key(root, role, key): the outcomes it can have; `find` on the
\* HashMap yields any entry that equals the key
add_key(rt, role, key) ==
    LET Found == { k \in DOMAIN rt.keys : rt.keys[k] = key } IN
    IF Found # {}
    THEN { [out |-> "Ok", root |-> ListInRole(rt, role, k)] : k \in Found }
    ELSE IF key_id(key) \in DOMAIN rt.keys
    THEN { [out |-> "KeyDuplicate", root |-> rt] }
    ELSE { [out |-> "Ok",
            root |-> ListInRole([rt EXCEPT !.keys = (key_id(key) :> key) @@ @],
                                role, key_id(key))] }

\* the roles the commands are given
ToolRoles == {"root", "timestamp"}

Command(op, role, key, arg, out) ==
    [op |-> op, role |-> role, key |-> key, arg |-> arg, out |-> out]

\* a command that cannot load the file fails and writes nothing
LoadFails(op, role, key, arg) ==
    /\ rootfile.kind # "file"
    /\ last' = Command(op, role, key, arg, "FileOpen")
    /\ UNCHANGED rootfile

\* Command::Init
RootInit ==
    /\ \E now \in Times :
         rootfile' = write_file(
            [signed |-> [RootDoc(TRUE, <<>>, [role \in Role |-> role_keys(InitialThreshold)], 1)
                            EXCEPT !.expires = round_time(now)],
             signatures |-> <<>>])
    /\ last' = Command("init", "", "", 0, "Ok")
    /\ UNCHANGED <<vvars, dvars, uvars, bvars>>

\* Command::Expire
Expire ==
    /\ \E time \in Times :
         \/ LoadFails("expire", "", "", time)
         \/ /\ rootfile.kind = "file"
            /\ rootfile' = write_file([load_file(rootfile) EXCEPT
                                          !.signed.expires = round_time(time)])
            /\ last' = Command("expire", "", "", time, "Ok")
    /\ UNCHANGED <<vvars, dvars, uvars, bvars>>

\* Command::SetThreshold
SetThreshold ==
    /\ \E role \in ToolRoles, threshold \in 1..MaxThreshold :
         \/ LoadFails("set-threshold", role, "", threshold)
         \/ /\ rootfile.kind = "file"
            /\ LET doc == load_file(rootfile)
                   roles == doc.signed.roles
               IN  rootfile' = write_file([doc EXCEPT !.signed.roles =
                      IF role \in DOMAIN roles
                      THEN [roles EXCEPT ![role].threshold = threshold]
                      ELSE (role :> role_keys(threshold)) @@ roles])
            /\ last' = Command("set-threshold", role, "", threshold, "Ok")
    /\ UNCHANGED <<vvars, dvars, uvars, bvars>>

\* Command::AddKey
AddKey ==
    /\ \E role \in ToolRoles, key \in KeyMaterial :
         \/ LoadFails("add-key", role, key, 0)
         \/ /\ rootfile.kind = "file"
            /\ \E o \in add_key(load_file(rootfile).signed, role, key) :
                 /\ rootfile' = IF o.out = "Ok"
                                THEN write_file([load_file(rootfile) EXCEPT !.signed = o.root])
                                ELSE rootfile
                 /\ last' = Command("add-key", role, key, 0, o.out)
    /\ UNCHANGED <<vvars, dvars, uvars, bvars>>

InitRootToolWith(entries) ==
    /\ IdleEnvelope
    /\ IdleUpdate
    /\ IdleStore
    /\ args = NoArgs
    /\ process = IdleProcess
    /\ outdir = NoFiles
    /\ rootfile \in entries
    /\ last = NoCommand

\* no root.json yet: the tool makes it
InitRootInit == InitRootToolWith({NoEntry})

NextRootInit == RootInit \/ Expire \/ SetThreshold \/ AddKey

SpecRootInit == InitRootInit /\ [][NextRootInit]_vars

\* root.json files that were not made by the tool
GivenRoots ==
    { RootDoc(TRUE, keys,
              [role \in D |-> [keyids |-> IF role = "root" THEN ks ELSE <<>>,
                               threshold |-> 1]], 1) :
        keys \in RootKeyMaps, D \in {Role, Role \ {"timestamp"}},
        ks \in SeqsUpTo(KeyIds, MaxKeyids) }

InitRootFile ==
    InitRootToolWith({ write_file([signed |-> rt, signatures |-> <<>>]) : rt \in GivenRoots })

NextRootFile == Expire \/ SetThreshold \/ AddKey

SpecRootFile == InitRootFile /\ [][NextRootFile]_vars

\* ------------------------------------------------ properties of the envelope
HasRole == self.signed.type \in DOMAIN root.signed.roles
TheRoleKeys == root.signed.roles[self.signed.type]

\* positions of the signatures list whose signature is by an authorized keyid
\* that resolves to a key of the root and is a signature of the signed bytes
\* by that key
ValidPositions ==
    { i \in 1..Len(self.signatures) :
        /\ \E j \in 1..Len(TheRoleKeys.keyids) : TheRoleKeys.keyids[j] = self.signatures[i].keyid
        /\ self.signatures[i].keyid \in DOMAIN root.signed.keys
        /\ self.signatures[i].sig.key = root.signed.keys[self.signatures[i].keyid]
        /\ self.signatures[i].sig.data = to_vec(self.signed) }

DistinctValidKeyids == { self.signatures[i].keyid : i \in ValidPositions }

Verified == res.op = "verify" /\ res.out = "Ok"

\* C1: verify succeeds only if the number of DISTINCT authorized keyids with a
\* valid signature reaches the threshold (a keyid repeated in the signatures
\* list is counted once).
C1_DistinctKeyidsReachThreshold ==
    Verified => (HasRole /\ Cardinality(DistinctValidKeyids) >= TheRoleKeys.threshold)

\* C5: when fewer than `threshold` signatures of the list are valid for the
\* role, verify fails with SignatureThreshold; a document with an empty
\* signatures list never verifies.
C5_BelowThresholdFails ==
    res.op = "verify" =>
        /\ (HasRole /\ Cardinality(ValidPositions) < TheRoleKeys.threshold)
              => res.out = "SignatureThreshold"
        /\ self.signatures = <<>> => res.out # "Ok"

C5_Witness ==
    /\ res.op = "verify" /\ HasRole
    /\ Cardinality(ValidPositions) = 1 /\ TheRoleKeys.threshold = 2
    /\ res.out = "SignatureThreshold"

IsRoot == self.signed.type = "root" /\ self = root
DanglingKeyids ==
    { TheRoleKeys.keyids[j] : j \in 1..Len(TheRoleKeys.keyids) } \ DOMAIN root.signed.keys

GroupOrWorldWritable(entry) ==
    /\ entry.kind = "file"
    /\ (entry.mode \div 2) % 2 = 1 \/ (entry.mode \div 16) % 2 = 1

\* C8: a reader that reads a file while Datastore::create is writing it sees a
\* complete document, never an empty or partially written file.
C8_ReaderSeesWholeDocument ==
    [][ ( /\ r.pc = "opened" /\ r'.pc = "done" /\ ~ r.orphan
          /\ w.pc \in {"meta", "write"} /\ w.file = r.file )
        => \E v \in Values : r'.seen = to_writer_pretty(v) ]_vars

\* C9: Datastore::new, reader and create fail with DatastorePermissions exactly
\* when the path they check exists with a group- or world-write bit in its
\* mode; a path that does not exist passes the check.
C9_PermissionsExactly ==
    [][ /\ (dres.op = "none" /\ dres'.op = "new") =>
              /\ (dres'.out = "DatastorePermissions") <=> GroupOrWorldWritable(dir)
              /\ dir.kind = "absent" => (dres'.out = "Ok" /\ ds')
        /\ (w.pc = "idle" /\ w'.pc = "open") =>
              ~ GroupOrWorldWritable(files[w'.file])
        /\ (w.pc = "idle" /\ dres.op = "none" /\ dres'.op = "create") =>
              /\ (dres'.out = "DatastorePermissions")
                    <=> GroupOrWorldWritable(files[dres'.file])
              /\ files[dres'.file].kind # "absent"
        /\ (w.pc # "idle" /\ dres.op = "none" /\ dres'.op = "create") =>
              dres'.out # "DatastorePermissions"
        /\ dres'.op = "remove" => dres'.out # "DatastorePermissions"
        /\ (r.pc = "idle" /\ r'.pc # "idle") =>
              /\ (r'.out = "DatastorePermissions") <=> GroupOrWorldWritable(files[r'.file])
              /\ files[r'.file].kind = "absent" => r'.out = "OkNone"
        /\ (r.pc # "idle" /\ r'.pc # "idle") => r'.out = r.out
      ]_vars

C9_Witness ==
    /\ dres.op = "create" /\ dres.out = "DatastorePermissions"
    /\ files[dres.file].mode = Oct(6, 6, 4)
    /\ r.pc = "done" /\ r.out = "OkNone" /\ files[r.file].kind = "absent"

\* C10: after a successful create(file, value) the file exists, holds exactly
\* the new value and has mode 0o644.
C10_CreateLeavesValueAndMode644 ==
    (dres.op = "create" /\ dres.out = "Ok") =>
        files[dres.file] = Entry(Oct(6, 4, 4), to_writer_pretty(dres.value))

\* ------------------------------------------ properties of the update workflow
\* positions of doc.signatures that count for doc's role under the root rt
AuthorizedValid(doc, rt) ==
    { i \in 1..Len(doc.signatures) :
        /\ \E j \in 1..Len(rt.signed.roles[doc.signed.type].keyids) :
              rt.signed.roles[doc.signed.type].keyids[j] = doc.signatures[i].keyid
        /\ doc.signatures[i].keyid \in DOMAIN rt.signed.keys
        /\ doc.signatures[i].sig.key = rt.signed.keys[doc.signatures[i].keyid]
        /\ doc.signatures[i].sig.data = to_vec(doc.signed) }

MeetsThreshold(doc, rt) ==
    /\ doc.signed.type \in DOMAIN rt.signed.roles
    /\ Cardinality(AuthorizedValid(doc, rt)) >= rt.signed.roles[doc.signed.type].threshold

RoleFiles == {"timestamp.json", "snapshot.json", "targets.json"}

VersionKept(f) ==
    (Complete(files[f]) /\ Complete(files'[f]))
        => Stored(files'[f]).signed.version >= Stored(files[f]).signed.version

MetaVersionsKept ==
    (Complete(files["snapshot.json"]) /\ Complete(files'["snapshot.json"]))
        => \A n \in DOMAIN Stored(files["snapshot.json"]).signed.meta
                    \cap DOMAIN Stored(files'["snapshot.json"]).signed.meta :
              Stored(files'["snapshot.json"]).signed.meta[n].version
                 >= Stored(files["snapshot.json"]).signed.meta[n].version

C4_NothingPersistedOnFailure ==
    [][ /\ upc' = "failed" => files' = files
        /\ \A f \in Files : files'[f] # files[f] =>
              (Complete(files'[f]) /\ MeetsThreshold(Stored(files'[f]), root')) ]_vars

\* ------------------------------------------------ properties of the builder
\* the unique written document of a role, parsed from its file
WrittenOf(type) ==
    { from_slice(outdir[p]) : p \in { q \in WrittenMetadata : from_slice(outdir[q]).signed.type = type } }

TheRoot == from_slice(args.root).signed

\* C11: each document the builder has written carries the version and the
\* expiry given for its own role: targets, snapshot and timestamp alike.
C11_OwnVersionAndExpiry ==
    /\ \A d \in WrittenOf("targets") :
          d.signed.version = args.targets_version /\ d.signed.expires = args.targets_expires
    /\ \A d \in WrittenOf("snapshot") :
          d.signed.version = args.snapshot_version /\ d.signed.expires = args.snapshot_expires
    /\ \A d \in WrittenOf("timestamp") :
          d.signed.version = args.timestamp_version /\ d.signed.expires = args.timestamp_expires

\* the entry `entry` of a referring document describes the file at path p,
\* which holds a document of version `version`
Describes(entry, p, version) ==
    /\ entry.sha256 = Sha256Digest(outdir[p])
    /\ entry.length = Len(outdir[p])
    /\ entry.version = version
    /\ from_slice(outdir[p]).signed.version = version

FilesNamed(name) == { p \in DOMAIN outdir : p.dir = "metadata" /\ p.name = name }

\* C12: in every state of the builder run, each meta entry of a written
\* snapshot or timestamp holds the sha256 and the length of the bytes of the
\* file it names, trailing newline included, and the version of the document
\* in that file.
C12_MetaMatchesWrittenBytes ==
    /\ \A d \in WrittenOf("snapshot") \cup WrittenOf("timestamp") :
          \A n \in DOMAIN d.signed.meta :
             /\ FilesNamed(n) # {}
             /\ \A p \in FilesNamed(n) :
                   Describes(d.signed.meta[n], p, from_slice(outdir[p]).signed.version)
    /\ \A d \in WrittenOf("snapshot") : DOMAIN d.signed.meta = {"root.json", "targets.json"}
    /\ \A d \in WrittenOf("timestamp") : DOMAIN d.signed.meta = {"snapshot.json"}
    /\ \A p \in DOMAIN outdir : p.dir = "metadata" => outdir[p][Len(outdir[p])] = "\n"

C12_Witness ==
    /\ process.pc = "done"
    /\ \E d \in WrittenOf("snapshot") : Len(d.signatures) = 1
    /\ \E d \in WrittenOf("timestamp") :
          d.signed.meta["snapshot.json"].version = MaxVersion
    /\ args.targets_version # args.snapshot_version
    /\ args.indir # NoFiles

\* C13: the root is at metadata/<root.version>.root.json; targets.json and
\* snapshot.json carry their version as a prefix exactly when the root says
\* consistent_snapshot; timestamp.json never has a prefix; a target file has
\* the hex sha256 of its bytes as a prefix exactly when the root says
\* consistent_snapshot.
C13_OutputLayout ==
    /\ process.pc \notin {"start", "copy_root"} =>
          FilesNamed("root.json") = { Path("metadata", TheRoot.version, <<>>, "root.json") }
    /\ \A p \in DOMAIN outdir :
          /\ p.dir \in {"metadata", "targets"}
          /\ p.dir = "metadata" =>
                /\ p.hash = <<>>
                /\ p.name \in {"root.json", "targets.json", "snapshot.json", "timestamp.json"}
                /\ p.name \in {"targets.json", "snapshot.json"} =>
                      IF TheRoot.consistent_snapshot
                      THEN p.version = from_slice(outdir[p]).signed.version
                      ELSE p.version = 0
                /\ p.name = "timestamp.json" => p.version = 0
          /\ p.dir = "targets" =>
                /\ p.version = 0
                /\ p.name \in DOMAIN args.indir
                /\ outdir[p] = args.indir[p.name]
                /\ IF TheRoot.consistent_snapshot
                   THEN p.hash = Sha256Digest(args.indir[p.name])
                   ELSE p.hash = <<>>
    /\ process.pc \notin {"start", "copy_root", "targets"} =>
          /\ FilesNamed("targets.json") # {}
          /\ \A n \in DOMAIN args.indir : \E p \in DOMAIN outdir : p.dir = "targets" /\ p.name = n
    /\ process.pc = "done" =>
          FilesNamed("snapshot.json") # {} /\ FilesNamed("timestamp.json") # {}

C13_Witness ==
    /\ process.pc = "done"
    /\ TheRoot.consistent_snapshot
    /\ TheRoot.version = MaxVersion
    /\ args.timestamp_version = MaxVersion
    /\ args.indir # NoFiles

SignaturesBy(d, m) == { i \in 1..Len(d.signatures) : d.signatures[i].sig.key = m }

WrittenRoleDocs == WrittenOf("targets") \cup WrittenOf("snapshot") \cup WrittenOf("timestamp")

AuthorizedKeyids(d) ==
    IF d.signed.type \in DOMAIN TheRoot.roles
    THEN { k \in KeyIds : Contains(TheRoot.roles[d.signed.type].keyids, k) }
    ELSE {}

\* C14 as stated: a written document holds exactly one signature for every
\* key of the caller whose key id is among the role's keyids in the root, and
\* none for any other key.
C14_OneSignaturePerAuthorizedKey ==
    \A d \in WrittenRoleDocs : \A m \in KeyMaterial :
       IF m \in args.keys /\ key_id(m) \in AuthorizedKeyids(d)
       THEN /\ Cardinality(SignaturesBy(d, m)) = 1
            /\ \A i \in SignaturesBy(d, m) : d.signatures[i].keyid = key_id(m)
       ELSE SignaturesBy(d, m) = {}

\* the key ids under which the root lists the key m
ListedUnder(m) == { k \in DOMAIN TheRoot.keys : TheRoot.keys[k] = m }

\* C14 amended: a written document holds exactly one signature for every key
\* of the caller that the root lists in `keys` under key ids that are all among
\* the role's keyids, and none for a key that is not the caller's or that the
\* root lists under no key id of the role; a signature is made over the
\* canonical form of `signed`, under a key id the root lists the key with, and
\* no key signs twice. The document is written whatever the threshold is.
C14_OneSignaturePerListedKey ==
    /\ \A d \in WrittenRoleDocs : \A m \in KeyMaterial :
          /\ Cardinality(SignaturesBy(d, m)) <= 1
          /\ \A i \in SignaturesBy(d, m) :
                /\ d.signatures[i].keyid \in ListedUnder(m) \cap AuthorizedKeyids(d)
                /\ d.signatures[i].sig.data = CanonicalForm(d.signed)
          /\ (m \notin args.keys \/ ListedUnder(m) \cap AuthorizedKeyids(d) = {})
                => SignaturesBy(d, m) = {}
          /\ (m \in args.keys /\ ListedUnder(m) # {} /\ ListedUnder(m) \subseteq AuthorizedKeyids(d))
                => Cardinality(SignaturesBy(d, m)) = 1
    /\ process.pc = "done" =>
          WrittenOf("targets") # {} /\ WrittenOf("snapshot") # {} /\ WrittenOf("timestamp") # {}

C14_Witness ==
    /\ process.pc = "done"
    /\ \E d \in WrittenOf("targets") : Len(d.signatures) = 2
    /\ \E d \in WrittenOf("snapshot") :
          Len(d.signatures) = 1 /\ TheRoot.roles["snapshot"].threshold = 2
    /\ \E d \in WrittenOf("timestamp") : Len(d.signatures) = 0

\* C16: the bytes verify checks the signatures of a written document against
\* are the canonical form the builder signed, so a document the builder signed
\* with at least threshold keys passes verify under the root it was built for.
C16_VerifiesWhatWasSigned ==
    (/\ res.op = "verify" /\ process.pc = "done"
     /\ self.signed.type \in DOMAIN root.signed.roles
     /\ Len(self.signatures) >= root.signed.roles[self.signed.type].threshold)
        => /\ to_vec(self.signed) = CanonicalForm(self.signed)
           /\ res.out = "Ok"

\* -------------------------------------------- properties of the root editor
TheRootFile == load_file(rootfile).signed
TheRootFileAfter == load_file(rootfile').signed

\* a step that runs add-key on a root.json that loads
AddKeyStep == last'.op = "add-key" /\ rootfile.kind = "file"

\* C15: add-key applied a second time with the same role and key, after a
\* first application that succeeded, succeeds and leaves the root file, and
\* so root.keys and the role's keyids, as the first application left it.
C15_AddKeyIdempotent ==
    [][ (/\ AddKeyStep
         /\ last.op = "add-key" /\ last.out = "Ok"
         /\ last'.role = last.role /\ last'.key = last.key)
          => (last'.out = "Ok" /\ rootfile' = rootfile) ]_vars

EntriesEqualTo(key) == { k \in DOMAIN TheRootFile.keys : TheRootFile.keys[k] = key }

\* C17: add-key of a key that equals an entry of root.keys succeeds, leaves
\* root.keys unchanged and lists the key id of such an entry in the role;
\* add-key of a key that equals no entry while its computed key id is taken
\* fails with KeyDuplicate and leaves the root file unchanged.
C17_ReuseOrKeyDuplicate ==
    [][ AddKeyStep =>
          /\ EntriesEqualTo(last'.key) # {} =>
                /\ last'.out = "Ok"
                /\ TheRootFileAfter.keys = TheRootFile.keys
                /\ \E k \in EntriesEqualTo(last'.key) :
                      Contains(TheRootFileAfter.roles[last'.role].keyids, k)
          /\ (EntriesEqualTo(last'.key) = {} /\ key_id(last'.key) \in DOMAIN TheRootFile.keys) =>
                /\ last'.out = "KeyDuplicate"
                /\ rootfile' = rootfile ]_vars

C17_Witness ==
    /\ last.op = "add-key"
    /\ last.out = "KeyDuplicate"
    /\ rootfile.kind = "file"
    /\ key_id(last.key) \in DOMAIN TheRootFile.keys
    /\ TheRootFile.keys[key_id(last.key)] # last.key

\* C18: `root init` writes version 1, consistent_snapshot, no keys and four
\* roles with no keyids and threshold 1507; after any sequence of expire,
\* set-threshold and add-key every key id a role lists is a key of root.keys
\* and no role lists a key id twice.
C18_KeyidsResolveAndDistinct ==
    /\ last.op = "init" =>
          /\ TheRootFile.version = 1 /\ TheRootFile.consistent_snapshot
          /\ TheRootFile.keys = <<>>
          /\ TheRootFile.roles = [role \in Role |-> [keyids |-> <<>>, threshold |-> 1507]]
          /\ load_file(rootfile).signatures = <<>>
    /\ rootfile.kind = "file" =>
          \A role \in DOMAIN TheRootFile.roles :
             LET keyids == TheRootFile.roles[role].keyids IN
               /\ \A i \in 1..Len(keyids) : keyids[i] \in DOMAIN TheRootFile.keys
               /\ \A i, j \in 1..Len(keyids) : keyids[i] = keyids[j] => i = j

C18_Witness ==
    /\ rootfile.kind = "file"
    /\ last.op = "add-key" /\ last.out = "Ok"
    /\ Len(TheRootFile.roles["root"].keyids) = 2
    /\ Len(TheRootFile.roles["timestamp"].keyids) = 1
    /\ TheRootFile.roles["root"].threshold = MaxThreshold
    /\ TheRootFile.roles["snapshot"].threshold = 1507

====
